---- MODULE Spec2Model ----
(***************************************************************************)
(* A model of src/athena_table.py: the AthenaTable class.                  *)
(*                                                                         *)
(* Two specifications share the module:                                    *)
(*   Spec       cast_dataframe applied to a frame under a glue schema      *)
(*   SpecTable  the table-management methods (drop, empty, purge, ...)     *)
(*              against a glue catalog and an S3 bucket                    *)
(*                                                                         *)
(* Strings whose characters the code inspects (column names, cell values)  *)
(* are sequences of one-character strings, so that endswith, __contains__  *)
(* and zero-filling are computed and not assumed.                          *)
(***************************************************************************)
EXTENDS Integers, Sequences, FiniteSets, TLC

VARIABLES
    \* ---- cast_dataframe ----
    frame,            \* the caller's DataFrame: column name -> series of values
    columns,          \* glue_definition["Table"]["StorageDescriptor"]["Columns"]
    frame0,           \* history: the frame before the first call
    prev,             \* history: the frame before the latest call
    entered,          \* history: each processed column as it entered the padding rules
    padded,           \* history: each processed column as it left the padding rules
    outcomes,         \* history: "ok" or "raised", one per call
    \* ---- table management ----
    arg_access_type,  \* the access_type argument given to __init__
    arg_source_type,  \* the source_type argument given to __init__
    access_type,      \* self.access_type
    source_type,      \* self.source_type
    glue_definition,  \* self.glue_definition: "EMPTY" (falsy dict) or "DEFINED"
    presto_table_type,\* self.presto_table_type
    catalog,          \* the glue catalog's entry for the table
    objects,          \* the keys under the table's S3 location
    incoming,         \* the keys listen() reports for the table's source
    last_op,          \* history: the latest method called
    outcome,          \* history: how it ended
    log,              \* history: the external calls the latest method made, in order
    pre,              \* history: catalog, objects and glue_definition before the call
    ops               \* number of method calls so far

castVars == <<frame, columns, frame0, prev, entered, padded, outcomes>>
tableVars == <<arg_access_type, arg_source_type, access_type, source_type,
               glue_definition, presto_table_type, catalog, objects, incoming,
               last_op, outcome, log, pre, ops>>
vars == <<castVars, tableVars>>

----------------------------------------------------------------------------
(* Bounds of the model *)

MaxRows == 2
MaxCalls == 2
\* cast_dataframe is called again only on frames whose cells are this short
\* (100 * str makes a cell a hundred times longer at every call)
MaxCellLen == 20
\* S3 keys are 1..MaxKeys, listed in ascending order
MaxKeys == 2
\* method calls on one table object
MaxOps == 3

----------------------------------------------------------------------------
(* Strings *)

S_date == <<"d", "a", "t", "e">>
S_dt == <<"_", "d", "t">>
S_ts == <<"_", "t", "s">>
S_date_time == <<"_", "d", "a", "t", "e", "_", "t", "i", "m", "e">>
S_timestamp == <<"_", "t", "i", "m", "e", "s", "t", "a", "m", "p">>
S_zip_cd == <<"z", "i", "p", "_", "c", "d">>
S_cbsa_cd == <<"c", "b", "s", "a", "_", "c", "d">>
S_cnty_cd == <<"c", "n", "t", "y", "_", "c", "d">>
S_sale_regn_cd == <<"s", "a", "l", "e", "_", "r", "e", "g", "n", "_", "c", "d">>
S_prim_msa_cd == <<"p", "r", "i", "m", "_", "m", "s", "a", "_", "c", "d">>
S_prim_census_tract_cd == <<"p", "r", "i", "m", "_", "c", "e", "n", "s", "u", "s", "_", "t", "r", "a", "c", "t", "_", "c", "d">>
S_customer_id == <<"c", "u", "s", "t", "o", "m", "e", "r", "_", "i", "d">>
S_cust_id == <<"_", "c", "u", "s", "t", "_", "i", "d">>
S_lnprps_cd == <<"l", "n", "p", "r", "p", "s", "_", "c", "d">>
S_uw_desgntn_cd == <<"u", "w", "_", "d", "e", "s", "g", "n", "t", "n", "_", "c", "d">>
S_UNK == <<"U", "N", "K">>

\* str.endswith
EndsWith(s, suffix) ==
    /\ Len(s) >= Len(suffix)
    /\ SubSeq(s, Len(s) - Len(suffix) + 1, Len(s)) = suffix

\* str.__contains__
Contains(s, sub) ==
    \E i \in 1..(Len(s) - Len(sub) + 1) : SubSeq(s, i, i + Len(sub) - 1) = sub

DigitChars == <<"0", "1", "2", "3", "4", "5", "6", "7", "8", "9">>

RECURSIVE DecimalString(_)
\* str(n) of a non-negative int
DecimalString(n) ==
    IF n < 10 THEN <<DigitChars[n + 1]>>
    ELSE DecimalString(n \div 10) \o <<DigitChars[(n % 10) + 1]>>

DigitValue(c) == CHOOSE d \in 0..9 : DigitChars[d + 1] = c

IsDigits(s) == Len(s) > 0 /\ \A i \in 1..Len(s) : \E d \in 1..10 : DigitChars[d] = s[i]

RECURSIVE Canonical(_)
\* An int is kept as its decimal digits without leading zeros, whatever its
\* size (a Python int has no width).  Canonical(s) is int(s) of a string of
\* digits.
Canonical(s) ==
    IF Len(s) > 1 /\ s[1] = "0" THEN Canonical(Tail(s)) ELSE s

RECURSIVE TimesDigits(_, _, _)
\* the digits of d * factor + carry, d a string of digits
TimesDigits(d, factor, carry) ==
    IF Len(d) = 0 THEN (IF carry = 0 THEN <<>> ELSE DecimalString(carry))
    ELSE LET x == DigitValue(d[Len(d)]) * factor + carry
         IN  TimesDigits(SubSeq(d, 1, Len(d) - 1), factor, x \div 10)
                \o <<DigitChars[(x % 10) + 1]>>

RECURSIVE Repeat(_, _)
\* n * s of a str: s repeated n times
Repeat(s, n) ==
    IF n <= 0 THEN <<>>
    ELSE IF n % 2 = 0 THEN LET half == Repeat(s, n \div 2) IN half \o half
    ELSE s \o Repeat(s, n - 1)

----------------------------------------------------------------------------
(* Cell values: an int, a str or a pandas Timestamp; Raise stands for an   *)
(* exception raised while computing a value.                               *)

IntV(digits) == [k |-> "int", s |-> digits]
StrV(s) == [k |-> "str", s |-> s]
TsV(digits) == [k |-> "ts", s |-> digits]
Raise == [k |-> "raise", s |-> <<>>]
Num(n) == IntV(DecimalString(n))

\* str(Timestamp): a calendar date followed by the time of day; always longer
\* than any padding width.  t counts from 1970-01-01.
TimestampPrefix == <<"1", "9", "7", "0", "-", "0", "1", "-", "0", "1", " ">>
TimestampString(t) == TimestampPrefix \o t

\* str(value)
Str(v) ==
    CASE v.k = "int" -> v.s
      [] v.k = "str" -> v.s
      [] OTHER -> TimestampString(v.s)

----------------------------------------------------------------------------
(* Library and helper functions cast_dataframe calls *)

\* pandas.to_datetime on one value: a Timestamp is kept, a number is an
\* offset from the epoch, a string is parsed and an unparsable one raises.
to_datetime(v) ==
    CASE v.k = "ts" -> v
      [] v.k = "int" -> TsV(v.s)
      [] v.k = "str" /\ IsDigits(v.s) -> TsV(Canonical(v.s))
      [] v.k = "str" /\ Len(v.s) > Len(TimestampPrefix)
                     /\ SubSeq(v.s, 1, Len(TimestampPrefix)) = TimestampPrefix
                     /\ IsDigits(SubSeq(v.s, Len(TimestampPrefix) + 1, Len(v.s)))
            -> TsV(Canonical(SubSeq(v.s, Len(TimestampPrefix) + 1, Len(v.s))))
      [] OTHER -> Raise

RECURSIVE LeftPad(_, _)
LeftPad(s, width) == IF Len(s) >= width THEN s ELSE LeftPad(<<"0">> \o s, width)

\* zfill(value, width): the value's string, zero-filled on the left to width
zfill(v, width) == StrV(LeftPad(Str(v), width))

\* cast_series_type on one value: the value as the glue type, or an error
cast_series_type(v, type) ==
    CASE type = "string" -> StrV(Str(v))
      [] type = "int" /\ v.k = "int" -> v
      [] type = "int" /\ v.k = "ts" -> IntV(v.s)
      [] type = "int" /\ v.k = "str" /\ IsDigits(v.s) -> IntV(Canonical(v.s))
      [] type = "timestamp" -> to_datetime(v)
      [] OTHER -> Raise

----------------------------------------------------------------------------
(* cast_dataframe *)

ZipWidth == 5
CntyWidth == 3
SaleRegnWidth == 2
PrimMsaWidth == 4
CensusTractWidth == 6
CensusTractFactor == 100
CustomerIdWidth == 10
UnkWidth == 2

IsTemporal(col) ==
    \/ EndsWith(col, S_date)
    \/ EndsWith(col, S_dt)
    \/ EndsWith(col, S_ts)
    \/ EndsWith(col, S_date_time)
    \/ EndsWith(col, S_timestamp)

IsZip(col) == Contains(col, S_zip_cd) \/ Contains(col, S_cbsa_cd)
IsCnty(col) == Contains(col, S_cnty_cd)
IsSaleRegn(col) == Contains(col, S_sale_regn_cd)
IsPrimMsa(col) == Contains(col, S_prim_msa_cd)
IsCensusTract(col) == Contains(col, S_prim_census_tract_cd)
IsCustomerId(col) == Contains(col, S_customer_id) \/ Contains(col, S_cust_id)
IsUnkCd(col) == Contains(col, S_lnprps_cd) \/ Contains(col, S_uw_desgntn_cd)

\* 100 * geo_cd: a number is multiplied, a str is repeated, a Timestamp
\* raises TypeError
Times(factor, v) ==
    CASE v.k = "int" -> IntV(Canonical(TimesDigits(v.s, factor, 0)))
      [] v.k = "str" -> StrV(Repeat(v.s, factor))
      [] OTHER -> Raise

\* mutant of PadZip: the scaling of the census tract rule copied into it
PadZipScaled(geo_cd) ==
    LET scaled == Times(CensusTractFactor, geo_cd)
    IN  IF scaled = Raise THEN Raise ELSE zfill(scaled, ZipWidth)

PadZip(geo_cd) == zfill(geo_cd, ZipWidth)
PadCnty(geo_cd) == zfill(geo_cd, CntyWidth)
PadSaleRegn(geo_cd) == zfill(geo_cd, SaleRegnWidth)
PadPrimMsa(geo_cd) == zfill(geo_cd, PrimMsaWidth)
\* mutant of PadCensusTract: the factor forgotten
PadCensusTractUnscaled(geo_cd) == zfill(geo_cd, CensusTractWidth)

PadCensusTract(geo_cd) ==
    LET scaled == Times(CensusTractFactor, geo_cd)
    IN  IF scaled = Raise THEN Raise ELSE zfill(scaled, CensusTractWidth)
\* mutant of PadCustomerId: the width of another rule
PadCustomerIdShort(customer_id) == zfill(customer_id, ZipWidth)

PadCustomerId(customer_id) == zfill(customer_id, CustomerIdWidth)
\* mutant of PadUnkCd: the width of another rule
PadUnkCdWide(unk_cd) == IF unk_cd = StrV(S_UNK) THEN unk_cd ELSE zfill(unk_cd, CntyWidth)

PadUnkCd(unk_cd) == IF unk_cd = StrV(S_UNK) THEN unk_cd ELSE zfill(unk_cd, UnkWidth)

\* mutant of ColumnInFrame: the membership test dropped
ColumnAlwaysInFrame(column, fr) == TRUE

\* column["Name"] in frame.columns
ColumnInFrame(column, fr) == column.Name \in DOMAIN fr

\* the function a step applies to every value of the series
Apply(step, v, type) ==
    CASE step = "to_datetime" -> to_datetime(v)
      [] step = "zip" -> PadZip(v)
      [] step = "cnty" -> PadCnty(v)
      [] step = "sale_regn" -> PadSaleRegn(v)
      [] step = "prim_msa" -> PadPrimMsa(v)
      [] step = "census_tract" -> PadCensusTract(v)
      [] step = "customer_id" -> PadCustomerId(v)
      [] step = "unk_cd" -> PadUnkCd(v)
      [] OTHER -> cast_series_type(v, type)

\* frame[col] = <step>(frame[col]) when the step applies.  The new series is
\* built first, so a value that raises leaves the column as it was; frame[col]
\* of a column the frame lacks raises KeyError.
Assign(st, applies, column, step) ==
    IF st.exc \/ ~applies THEN st
    ELSE IF column.Name \notin DOMAIN st.frame THEN [st EXCEPT !.exc = TRUE]
    ELSE LET old == st.frame[column.Name]
             new == [i \in DOMAIN old |-> Apply(step, old[i], column.Type)]
         IN  IF \E i \in DOMAIN new : new[i] = Raise
             THEN [st EXCEPT !.exc = TRUE]
             ELSE [st EXCEPT !.frame[column.Name] = new]

\* history only: the column as it stands between two steps
Note(st, field, col) ==
    IF st.exc \/ col \notin DOMAIN st.frame THEN st
    ELSE IF field = "entered"
         THEN [st EXCEPT !.entered = (col :> st.frame[col]) @@ @]
         ELSE [st EXCEPT !.padded = (col :> st.frame[col]) @@ @]

\* the body of the loop, for one column of the glue definition
CastColumn(st, column) ==
    IF st.exc \/ ~ColumnInFrame(column, st.frame) THEN st
    ELSE
    LET col == column.Name
        s1 == Assign(st, IsTemporal(col), column, "to_datetime")
        e1 == Note(s1, "entered", col)
        s2 == Assign(e1, IsZip(col), column, "zip")
        s3 == Assign(s2, IsCnty(col), column, "cnty")
        s4 == Assign(s3, IsSaleRegn(col), column, "sale_regn")
        s5 == Assign(s4, IsPrimMsa(col), column, "prim_msa")
        s6 == Assign(s5, IsCensusTract(col), column, "census_tract")
        s7 == Assign(s6, IsCustomerId(col), column, "customer_id")
        s8 == Assign(s7, IsUnkCd(col), column, "unk_cd")
        e8 == Note(s8, "padded", col)
    IN  Assign(e8, TRUE, column, "cast_series_type")

RECURSIVE CastColumns(_, _, _)
CastColumns(st, cols, i) ==
    IF i > Len(cols) THEN st
    ELSE CastColumns(CastColumn(st, cols[i]), cols, i + 1)

NoSeries == [c \in {} |-> <<>>]

\* AthenaTable.cast_dataframe: the frame is changed in place, column by column
cast_dataframe(fr, cols) ==
    CastColumns([frame |-> fr, exc |-> FALSE, entered |-> NoSeries, padded |-> NoSeries],
                cols, 1)

----------------------------------------------------------------------------
(* The frames and glue schemas cast_dataframe is given *)

Col_zip_cd == S_zip_cd
Col_cbsa_cd == S_cbsa_cd
Col_cnty_cd == S_cnty_cd
Col_sale_regn_cd == S_sale_regn_cd
Col_prim_msa_cd == S_prim_msa_cd
Col_prim_census_tract_cd == S_prim_census_tract_cd
Col_customer_id == S_customer_id
Col_b_cust_id == <<"b">> \o S_cust_id
Col_lnprps_cd == S_lnprps_cd
Col_uw_desgntn_cd == S_uw_desgntn_cd
Col_zip_cd_lnprps_cd == S_zip_cd \o <<"_">> \o S_lnprps_cd
Col_zip_cd_prim_census_tract_cd == S_zip_cd \o <<"_">> \o S_prim_census_tract_cd
Col_event_date == <<"e", "v", "e", "n", "t", "_">> \o S_date
Col_zip_cd_dt == S_zip_cd \o S_dt
Col_name == <<"n", "a", "m", "e">>
Col_load_ts == <<"l", "o", "a", "d">> \o S_ts

\* column names of one-column frames: every rule, alone and combined
ColumnNames ==
    {Col_zip_cd, Col_cbsa_cd, Col_cnty_cd, Col_sale_regn_cd, Col_prim_msa_cd,
     Col_prim_census_tract_cd, Col_customer_id, Col_b_cust_id, Col_lnprps_cd,
     Col_uw_desgntn_cd, Col_zip_cd_lnprps_cd, Col_zip_cd_prim_census_tract_cd,
     Col_event_date, Col_zip_cd_dt, Col_name}

\* column names of two-column frames
PairNames == {Col_zip_cd, Col_event_date, Col_name}

\* a column the glue definition may list and no frame has
AbsentName == Col_load_ts

Values ==
    {Num(5), Num(7), Num(42), Num(123), Num(123456),
     StrV(S_UNK), StrV(<<"0", "0", "1", "2", "3">>)}

PairValues == {Num(5), Num(123456), StrV(S_UNK)}

GlueTypes == {"string", "int", "timestamp"}

PairTypes == {"string", "int"}

SeriesOver(vals) == UNION {[1..n -> vals] : n \in 1..MaxRows}

OneColumnFrames == {(c :> s) : c \in ColumnNames, s \in SeriesOver(Values)}

TwoColumnFrames ==
    {(p[1] :> s[1]) @@ (p[2] :> s[2]) :
        p \in {q \in PairNames \X PairNames : q[1] # q[2]},
        s \in {t \in SeriesOver(PairValues) \X SeriesOver(PairValues) :
                    Len(t[1]) = Len(t[2])}}

\* the glue column list of a one-column frame: that column, of any type
OneColumnSchemas(fr) ==
    {<<[Name |-> n, Type |-> t]>> : n \in DOMAIN fr, t \in GlueTypes}

\* glue column lists of one or two distinct columns, over the frame's columns
\* and the absent one
TwoColumnSchemas(fr) ==
    LET names == DOMAIN fr \cup {AbsentName}
        entries == {[Name |-> n, Type |-> t] : n \in names, t \in PairTypes}
    IN  {<<e>> : e \in entries}
        \cup {<<p[1], p[2]>> : p \in {q \in entries \X entries : q[1].Name # q[2].Name}}

Schemas(fr) ==
    IF Cardinality(DOMAIN fr) = 1 THEN OneColumnSchemas(fr) ELSE TwoColumnSchemas(fr)

Frames == OneColumnFrames \cup TwoColumnFrames

TableIdle ==
    /\ arg_access_type = "READONLY"
    /\ arg_source_type = "INCOMING"
    /\ access_type = "READONLY"
    /\ source_type = "INCOMING"
    /\ glue_definition = "EMPTY"
    /\ presto_table_type = "UNKNOWN"
    /\ catalog = "NONE"
    /\ objects = {}
    /\ incoming = {}
    /\ last_op = "none"
    /\ outcome = "none"
    /\ log = <<>>
    /\ pre = [catalog |-> "NONE", objects |-> {}, incoming |-> {},
               glue_definition |-> "EMPTY"]
    /\ ops = 0

Init ==
    /\ frame \in Frames
    /\ columns \in Schemas(frame)
    /\ frame0 = frame
    /\ prev = frame
    /\ entered = NoSeries
    /\ padded = NoSeries
    /\ outcomes = <<>>
    /\ TableIdle

CellsFit(fr) ==
    \A c \in DOMAIN fr : \A i \in DOMAIN fr[c] : Len(Str(fr[c][i])) <= MaxCellLen

\* a caller calls table.cast_dataframe(frame)
CastDataframe ==
    /\ Len(outcomes) < MaxCalls
    /\ CellsFit(frame)
    /\ LET r == cast_dataframe(frame, columns)
       IN  /\ frame' = r.frame
           /\ entered' = r.entered
           /\ padded' = r.padded
           /\ outcomes' = Append(outcomes, IF r.exc THEN "raised" ELSE "ok")
    /\ prev' = frame
    /\ UNCHANGED <<columns, frame0, tableVars>>

Next == CastDataframe

Spec == Init /\ [][Next]_vars

----------------------------------------------------------------------------
(* Properties of cast_dataframe *)

Called == Len(outcomes) > 0
Returned == Called /\ outcomes[Len(outcomes)] = "ok"
Raised == Called /\ outcomes[Len(outcomes)] = "raised"

SchemaNames == {columns[i].Name : i \in DOMAIN columns}

\* the columns the latest call took through the padding rules
Processed == DOMAIN entered \cap DOMAIN padded

\* The padding table as the specification gives it: the widths of the rules
\* a column name matches.
RuleWidths(c) ==
    (IF Contains(c, S_zip_cd) \/ Contains(c, S_cbsa_cd) THEN {5} ELSE {})
    \cup (IF Contains(c, S_cnty_cd) THEN {3} ELSE {})
    \cup (IF Contains(c, S_sale_regn_cd) THEN {2} ELSE {})
    \cup (IF Contains(c, S_prim_msa_cd) THEN {4} ELSE {})
    \cup (IF Contains(c, S_prim_census_tract_cd) THEN {6} ELSE {})
    \cup (IF Contains(c, S_customer_id) \/ Contains(c, S_cust_id) THEN {10} ELSE {})
    \cup (IF Contains(c, S_lnprps_cd) \/ Contains(c, S_uw_desgntn_cd) THEN {2} ELSE {})

\* the number of padding rules a column name matches
RuleCount(c) ==
    Cardinality({r \in {<<S_zip_cd, S_cbsa_cd>>, <<S_cnty_cd>>, <<S_sale_regn_cd>>,
                        <<S_prim_msa_cd>>, <<S_prim_census_tract_cd>>,
                        <<S_customer_id, S_cust_id>>, <<S_lnprps_cd, S_uw_desgntn_cd>>} :
                    \E j \in DOMAIN r : Contains(c, r[j])})

\* r is x left-padded with "0" to width, and x itself when x is that long
IsZeroPadded(r, x, width) ==
    /\ Len(r) = (IF Len(x) >= width THEN Len(x) ELSE width)
    /\ SubSeq(r, Len(r) - Len(x) + 1, Len(r)) = x
    /\ \A j \in 1..(Len(r) - Len(x)) : r[j] = "0"

\* C1: if a call raises, no column of the caller's frame has been changed
C1_FailsAtomically == Raised => frame = prev

\* C6: cast_dataframe touches only the columns in both the frame and the
\* schema: it adds no column, it leaves a frame column the schema lacks as it
\* was, and a schema whose columns the frame all lacks makes no error and no change
C6_TouchesOnlySharedColumns ==
    Called =>
        /\ DOMAIN frame = DOMAIN prev
        /\ \A c \in DOMAIN prev \ SchemaNames : frame[c] = prev[c]
        /\ (SchemaNames \cap DOMAIN prev = {}) => (Returned /\ frame = prev)
        /\ Raised => SchemaNames \cap DOMAIN prev # {}

\* a call under a schema that lists an absent column, on a frame with a
\* temporal or padded column the schema lacks, which changed the other column
C6_Witness ==
    /\ Returned
    /\ AbsentName \in SchemaNames
    /\ \E c \in DOMAIN prev \ SchemaNames : IsTemporal(c) \/ RuleCount(c) > 0
    /\ frame # prev

MaxOf(S) == CHOOSE m \in S : \A x \in S : x <= m

\* C3, as claimed: under every padding rule a column matches, of width w, each
\* value leaves the padding rules as its own string zero-padded to w
C3_PaddedToRuleWidth ==
    \A c \in Processed : \A w \in RuleWidths(c) : \A i \in DOMAIN padded[c] :
        /\ padded[c][i].k = "str"
        /\ IsZeroPadded(padded[c][i].s, Str(entered[c][i]), w)

\* C3, amended: for a column that matches padding rules and not the
\* prim_census_tract_cd one, each value leaves the padding rules as its own
\* string zero-padded to the largest width among the matching rules, never
\* truncated; with the examples of the claim
C3_PaddedToWidestRule ==
    /\ \A c \in Processed :
        (RuleCount(c) > 0 /\ ~Contains(c, S_prim_census_tract_cd)) =>
            \A i \in DOMAIN padded[c] :
                /\ padded[c][i].k = "str"
                /\ IsZeroPadded(padded[c][i].s, Str(entered[c][i]), MaxOf(RuleWidths(c)))
                /\ Len(padded[c][i].s) >= Len(Str(entered[c][i]))
    /\ \A c \in Processed \cap {Col_zip_cd} : \A i \in DOMAIN padded[c] :
        /\ entered[c][i] = Num(123) => padded[c][i] = StrV(<<"0", "0", "1", "2", "3">>)
        /\ entered[c][i] = Num(123456)
              => padded[c][i] = StrV(<<"1", "2", "3", "4", "5", "6">>)
    /\ \A c \in Processed \cap {Col_customer_id} : \A i \in DOMAIN padded[c] :
        entered[c][i] = Num(42)
            => padded[c][i] = StrV(<<"0", "0", "0", "0", "0", "0", "0", "0", "4", "2">>)
    /\ \A c \in Processed \cap {Col_sale_regn_cd} : \A i \in DOMAIN padded[c] :
        entered[c][i] = Num(7) => padded[c][i] = StrV(<<"0", "7">>)

\* a zip_cd column of 123 and 123456 was padded to "00123" and "123456"
C3_Witness ==
    /\ Returned
    /\ Col_zip_cd \in Processed
    /\ entered[Col_zip_cd] = <<Num(123), Num(123456)>>
    /\ padded[Col_zip_cd] = <<StrV(<<"0", "0", "1", "2", "3">>),
                              StrV(<<"1", "2", "3", "4", "5", "6">>)>>

\* the value times 100, as a string: a number is multiplied, a str repeated
TimesHundredString(v) ==
    IF v.k = "int" THEN (IF v.s = <<"0">> THEN v.s ELSE v.s \o <<"0", "0">>)
    ELSE Repeat(v.s, 100)

\* C4, as claimed: in a column whose name contains prim_census_tract_cd each
\* value leaves the padding rules as 100 times the value, zero-padded to 6
C4_TractTimesHundred ==
    \A c \in Processed : Contains(c, S_prim_census_tract_cd) =>
        \A i \in DOMAIN padded[c] :
            /\ padded[c][i].k = "str"
            /\ IsZeroPadded(padded[c][i].s, TimesHundredString(entered[c][i]), 6)

\* C4, amended: the same for a column that matches no other padding rule;
\* input 5 becomes "000500"
C4_TractAloneTimesHundred ==
    \A c \in Processed : (Contains(c, S_prim_census_tract_cd) /\ RuleCount(c) = 1) =>
        \A i \in DOMAIN padded[c] :
            /\ padded[c][i].k = "str"
            /\ IsZeroPadded(padded[c][i].s, TimesHundredString(entered[c][i]), 6)
            /\ entered[c][i] = Num(5)
                  => padded[c][i] = StrV(<<"0", "0", "0", "5", "0", "0">>)

\* a prim_census_tract_cd column holding 5 was padded to "000500"
C4_Witness ==
    /\ Returned
    /\ Col_prim_census_tract_cd \in Processed
    /\ entered[Col_prim_census_tract_cd][1] = Num(5)
    /\ padded[Col_prim_census_tract_cd][1] = StrV(<<"0", "0", "0", "5", "0", "0">>)

\* C5, as claimed: in a column whose name contains lnprps_cd or uw_desgntn_cd,
\* whatever else the name matches, "UNK" leaves the padding rules as "UNK" and
\* every other value zero-padded to 2
C5_UnkPassesThrough ==
    \A c \in Processed :
        (Contains(c, S_lnprps_cd) \/ Contains(c, S_uw_desgntn_cd)) =>
            \A i \in DOMAIN padded[c] :
                IF entered[c][i] = StrV(S_UNK)
                THEN padded[c][i] = StrV(S_UNK)
                ELSE /\ padded[c][i].k = "str"
                     /\ IsZeroPadded(padded[c][i].s, Str(entered[c][i]), 2)

\* C5, amended: the same for a column that matches no other padding rule
C5_UnkPassesThroughAlone ==
    \A c \in Processed :
        ((Contains(c, S_lnprps_cd) \/ Contains(c, S_uw_desgntn_cd)) /\ RuleCount(c) = 1) =>
            \A i \in DOMAIN padded[c] :
                IF entered[c][i] = StrV(S_UNK)
                THEN padded[c][i] = StrV(S_UNK)
                ELSE /\ padded[c][i].k = "str"
                     /\ IsZeroPadded(padded[c][i].s, Str(entered[c][i]), 2)

\* an lnprps_cd column of "UNK" and 5 was padded to "UNK" and "05"
C5_Witness ==
    /\ Returned
    /\ Col_lnprps_cd \in Processed
    /\ entered[Col_lnprps_cd] = <<StrV(S_UNK), Num(5)>>
    /\ padded[Col_lnprps_cd] = <<StrV(S_UNK), StrV(<<"0", "5">>)>>

\* the values of column c of the first frame already meet the width of every
\* padding rule c matches
MeetsWidth(c) ==
    \A w \in RuleWidths(c) : \A i \in DOMAIN frame0[c] : Len(Str(frame0[c][i])) >= w

\* the columns the padding idempotence is claimed for
AtWidth == {c \in DOMAIN frame0 \cap SchemaNames : RuleCount(c) > 0 /\ MeetsWidth(c)}

\* C2, as claimed: for a column that matches a padding rule and whose values
\* already meet the width, a second application with the same schema yields
\* what the first yielded
C2_PaddingIdempotent ==
    (Len(outcomes) >= 2 /\ outcomes[Len(outcomes) - 1] = "ok") =>
        \A c \in AtWidth : Returned /\ frame[c] = prev[c]

\* C2, amended: the same for the columns that do not match the
\* prim_census_tract_cd rule, whenever the second application returns
C2_PaddingIdempotentButTract ==
    (Len(outcomes) >= 2 /\ outcomes[Len(outcomes) - 1] = "ok" /\ Returned) =>
        \A c \in AtWidth : ~Contains(c, S_prim_census_tract_cd) => frame[c] = prev[c]

\* a zip_cd column of 123456 and "00123", cast as int, after two applications:
\* the first changed it, the second did not
C2_Witness ==
    /\ Len(outcomes) = 2 /\ outcomes[1] = "ok" /\ Returned
    /\ Col_zip_cd \in AtWidth
    /\ frame0[Col_zip_cd] = <<Num(123456), StrV(<<"0", "0", "1", "2", "3">>)>>
    /\ prev # frame0
    /\ frame = prev

\* stronger than C2 amended, kept as a check of the model: without a
\* prim_census_tract_cd column a second application returns when the first did
SecondApplicationReturns ==
    (Len(outcomes) >= 2 /\ outcomes[Len(outcomes) - 1] = "ok"
        /\ \A c \in DOMAIN frame0 \cap SchemaNames : ~Contains(c, S_prim_census_tract_cd))
    => Returned

----------------------------------------------------------------------------
(* Table management.  A method body is a function of the record            *)
(*   [glue_definition, presto_table_type, catalog, objects, incoming,      *)
(*    log, exc]                                                            *)
(* of what it reads and writes; exc is the exception that ended it, and a  *)
(* statement after a raised exception does nothing.                        *)

AccessTypes == {"READONLY", "OVERWRITE"}
\* self.source_path, which __init__ sets to None and nothing changes
source_path == "None"
SourceTypes == {"INCOMING", "HTTP", "PRODUCTION", "LEGACY", "ATHENA"}
Keys == 1..MaxKeys

Call(name, key) == [call |-> name, key |-> key]

Fail(st, exception) == [st EXCEPT !.exc = exception]

\* set_glue_dictionary: glue_definition and presto_table_type as the catalog
\* has them now; no table leaves an empty dict and an UNKNOWN type
set_glue_dictionary(st) ==
    IF st.exc # "none" THEN st
    ELSE [st EXCEPT !.glue_definition = IF st.catalog = "NONE" THEN "EMPTY" ELSE "DEFINED",
                    !.presto_table_type = IF st.catalog = "NONE" THEN "UNKNOWN"
                                          ELSE st.catalog]

\* AthenaTable.repair
repair(st) ==
    LET s1 == set_glue_dictionary(st)
    IN  IF s1.exc # "none" THEN s1
        ELSE IF s1.glue_definition = "EMPTY" THEN Fail(s1, "AssertionError")
        ELSE IF s1.presto_table_type = "VIRTUAL_VIEW" THEN Fail(s1, "AssertionError")
        ELSE [s1 EXCEPT !.log = Append(@, Call("repair", 0))]

\* the assertion of drop
DropAllowed == access_type = "OVERWRITE"

\* AthenaTable.drop
drop(st) ==
    IF st.exc # "none" THEN st
    ELSE IF ~DropAllowed THEN Fail(st, "AssertionError")
    ELSE IF st.glue_definition # "EMPTY"
         THEN [st EXCEPT !.catalog = "NONE",
                         !.log = Append(@, Call("drop", 0)),
                         !.glue_definition = "EMPTY"]
         ELSE st

\* the keys list_objects returns, after its set_glue_dictionary
ListedObjects(st) ==
    IF st.presto_table_type \in {"VIRTUAL_VIEW", "UNKNOWN"} THEN {} ELSE st.objects

\* AthenaTable.list_objects
list_objects(st) == set_glue_dictionary(st)

RECURSIVE DeleteObjects(_, _)
\* for _ in ...: _s3.delete_object(Bucket=self.table_bucket, Key=_)
DeleteObjects(st, keys) ==
    IF keys = {} THEN st
    ELSE LET key == CHOOSE k \in keys : \A other \in keys : k <= other
         IN  DeleteObjects([st EXCEPT !.objects = @ \ {key},
                                      !.log = Append(@, Call("delete_object", key))],
                           keys \ {key})

\* mutant of EmptyAllowed: the assertion dropped
EmptyAlwaysAllowed == TRUE

\* the assertion of empty
EmptyAllowed == access_type = "OVERWRITE"

\* AthenaTable.empty
empty(st) ==
    LET s1 == set_glue_dictionary(st)
    IN  IF s1.exc # "none" THEN s1
        ELSE IF ~EmptyAllowed THEN Fail(s1, "AssertionError")
        ELSE LET s2 == list_objects(s1)
                 s3 == DeleteObjects(s2, ListedObjects(s2))
             IN  repair(set_glue_dictionary(s3))

\* AthenaTable.purge
purge(st) ==
    LET s1 == set_glue_dictionary(st)
    IN  IF s1.exc # "none" THEN s1
        ELSE IF s1.glue_definition # "EMPTY" THEN drop(empty(s1))
        ELSE s1

RECURSIVE CopyFiles(_, _, _)
\* the loop over the files of the source: each is copied under the table's
\* location when it is to be copied, and deleted from the default bucket when
\* that is where it came from
CopyFiles(st, files, current) ==
    IF files = {} THEN st
    ELSE LET file == CHOOSE f \in files : \A other \in files : f <= other
             copied == IF source_type \in {"INCOMING", "PRODUCTION"} \/ file \in current
                       THEN [st EXCEPT !.objects = @ \cup {file},
                                       !.log = Append(@, Call("copy", file))]
                       ELSE st
             deleted == IF source_type = "INCOMING"
                        THEN [copied EXCEPT !.incoming = @ \ {file},
                                            !.log = Append(@, Call("delete_object", file))]
                        ELSE copied
         IN  CopyFiles(deleted, files \ {file}, current)

\* the key of bulk.parquet under the table's location
BulkParquet == MaxKeys

\* AthenaTable.populate_from_source (read_csv and open raise on a source_path
\* of None).  dated: the files whose key contains ymd;
\* current: the files _current_file accepts
populate_from_source(st, dated, current) ==
    LET s1 == set_glue_dictionary(st)
        files == IF source_type = "PRODUCTION" THEN st.incoming \cap dated
                 ELSE st.incoming
        s2 == IF s1.exc # "none" THEN s1
              ELSE IF source_type = "HTTP"
                   THEN IF source_path = "None" THEN Fail(s1, "ValueError")
                        ELSE IF s1.glue_definition = "EMPTY" THEN Fail(s1, "KeyError")
                        ELSE set_glue_dictionary(
                                [s1 EXCEPT !.objects = @ \cup {BulkParquet},
                                           !.log = Append(@, Call("to_parquet", BulkParquet))])
              ELSE IF source_type \in {"PRODUCTION", "INCOMING", "LEGACY"}
                   THEN IF files # {}
                        THEN LET s3 == empty(s1)
                             IN  IF s3.exc # "none" THEN s3
                                 ELSE CopyFiles(s3, files, current)
                        ELSE s1
              ELSE s1
    IN  IF s2.exc # "none" THEN s2 ELSE repair(s2)

\* AthenaTable.build_from_sql: the statement read from source_path creates
\* the table
build_from_sql(st) ==
    LET s1 == set_glue_dictionary(st)
    IN  IF s1.exc # "none" THEN s1
        ELSE IF source_type # "ATHENA" THEN Fail(s1, "AssertionError")
        ELSE IF source_path = "None" THEN Fail(s1, "TypeError")
        ELSE LET s2 == purge(s1)
             IN  IF s2.exc # "none" THEN s2
                 ELSE repair(set_glue_dictionary(
                        [s2 EXCEPT !.catalog = "EXTERNAL_TABLE",
                                   !.log = Append(@, Call("execute", 0))]))

----------------------------------------------------------------------------
(* The table object and the calls made on it *)

CastIdle ==
    /\ frame = NoSeries
    /\ columns = <<>>
    /\ frame0 = NoSeries
    /\ prev = NoSeries
    /\ entered = NoSeries
    /\ padded = NoSeries
    /\ outcomes = <<>>

\* AthenaTable.__init__(table_schema, table_name, access_type, source_type),
\* in whatever state the catalog and the buckets are
InitTable ==
    /\ arg_access_type \in AccessTypes
    /\ arg_source_type \in SourceTypes
    /\ access_type = "READONLY"
    /\ source_type = "INCOMING"
    /\ glue_definition = "EMPTY"
    /\ presto_table_type = "UNKNOWN"
    /\ catalog \in {"NONE", "EXTERNAL_TABLE", "VIRTUAL_VIEW"}
    /\ objects \in SUBSET Keys
    /\ incoming \in SUBSET Keys
    /\ last_op = "none"
    /\ outcome = "none"
    /\ log = <<>>
    /\ pre = [catalog |-> catalog, objects |-> objects, incoming |-> incoming,
              glue_definition |-> glue_definition]
    /\ ops = 0
    /\ CastIdle

\* the object and its surroundings as a method finds them
Current ==
    [glue_definition |-> glue_definition, presto_table_type |-> presto_table_type,
     catalog |-> catalog, objects |-> objects, incoming |-> incoming,
     log |-> <<>>, exc |-> "none"]

\* the call of a method that leaves st
Method(name, st) ==
    /\ ops < MaxOps
    /\ ops' = ops + 1
    /\ last_op' = name
    /\ pre' = [catalog |-> catalog, objects |-> objects, incoming |-> incoming,
               glue_definition |-> glue_definition]
    /\ glue_definition' = st.glue_definition
    /\ presto_table_type' = st.presto_table_type
    /\ catalog' = st.catalog
    /\ objects' = st.objects
    /\ incoming' = st.incoming
    /\ log' = st.log
    /\ outcome' = (IF st.exc = "none" THEN "ok" ELSE st.exc)
    /\ UNCHANGED <<arg_access_type, arg_source_type, access_type, source_type, castVars>>

Repair == Method("repair", repair(Current))
Drop == Method("drop", drop(Current))
ListObjects == Method("list_objects", list_objects(Current))
Empty == Method("empty", empty(Current))
Purge == Method("purge", purge(Current))
PopulateFromSource ==
    \E dated \in SUBSET Keys : \E current \in SUBSET Keys :
        Method("populate_from_source", populate_from_source(Current, dated, current))
BuildFromSql == Method("build_from_sql", build_from_sql(Current))

NextTable ==
    \/ Repair
    \/ Drop
    \/ ListObjects
    \/ Empty
    \/ Purge
    \/ PopulateFromSource
    \/ BuildFromSql

SpecTable == InitTable /\ [][NextTable]_vars

----------------------------------------------------------------------------
(* Properties of the table-management methods *)

RECURSIVE DeletesOf(_)
\* the delete_object calls of every key of a set, in the order of the listing
DeletesOf(keys) ==
    IF keys = {} THEN <<>>
    ELSE LET key == CHOOSE k \in keys : \A other \in keys : k <= other
         IN  <<Call("delete_object", key)>> \o DeletesOf(keys \ {key})

\* C7: on a table constructed with access_type OVERWRITE, drop() passes its
\* access check: with a glue_definition it drops the table and leaves the
\* glue_definition empty, without one it returns and drops nothing
C7_DropAfterOverwrite ==
    (last_op = "drop" /\ arg_access_type = "OVERWRITE") =>
        /\ outcome = "ok"
        /\ glue_definition = "EMPTY"
        /\ IF pre.glue_definition # "EMPTY"
           THEN log = <<Call("drop", 0)>> /\ catalog = "NONE"
           ELSE log = <<>> /\ catalog = pre.catalog

\* C8: while access_type is not OVERWRITE no call deletes an object or drops
\* the table, and empty() and drop() fail their assertion before any deletion
\* or drop
C8_DestructionGuarded ==
    (last_op # "none" /\ access_type # "OVERWRITE") =>
        /\ \A i \in DOMAIN log : log[i].call \notin {"delete_object", "drop"}
        /\ pre.objects \subseteq objects
        /\ pre.incoming \subseteq incoming
        /\ pre.catalog # "NONE" => catalog = pre.catalog
        /\ last_op \in {"empty", "drop"} => (outcome = "AssertionError" /\ log = <<>>)

\* empty() was called without OVERWRITE access on a table with objects, and
\* failed its assertion with every object still there
C8_Witness ==
    /\ last_op = "empty"
    /\ access_type # "OVERWRITE"
    /\ pre.catalog = "EXTERNAL_TABLE"
    /\ pre.objects # {}
    /\ outcome = "AssertionError"
    /\ objects = pre.objects

\* C9: purge() on a table with a glue definition deletes every listed object,
\* repairs the table, then drops it, and leaves the glue_definition empty;
\* on a table without one it deletes nothing and drops nothing
C9_PurgeEmptiesThenDrops ==
    last_op = "purge" =>
        IF pre.catalog # "NONE"
        THEN /\ outcome = "ok"
             /\ log = DeletesOf(IF pre.catalog = "VIRTUAL_VIEW" THEN {} ELSE pre.objects)
                        \o <<Call("repair", 0), Call("drop", 0)>>
             /\ objects \cap (IF pre.catalog = "VIRTUAL_VIEW" THEN {} ELSE pre.objects) = {}
             /\ catalog = "NONE"
             /\ glue_definition = "EMPTY"
        ELSE /\ outcome = "ok"
             /\ log = <<>>
             /\ objects = pre.objects

====
